---- MODULE Spec2Model ----
(***************************************************************************)
(* Model of the snapshot export (screener/option_screener.py) and of the   *)
(* outcome-labeling pipeline (screener/scripts/generate_labels.py) over    *)
(* the object store they share.                                            *)
(*                                                                         *)
(* Time is a clock reading `now`; DayLen consecutive readings make one     *)
(* calendar day and the first reading of a day is midnight.  A date column *)
(* (snapshot_date, expiration_date) holds the midnight reading of its day. *)
(* Storage namespaces are functions from the variable part of the key to   *)
(* the object stored under it:                                             *)
(*   raw      raw_data/<day>.parquet                                       *)
(*   archive  raw_data/archive/<day>.parquet                               *)
(*   training training_data/labeled_batch_<clock reading>.parquet          *)
(* Exports and labeling runs are processes that share the bucket and the   *)
(* clock: each takes one step per clock reading and per call that blocks   *)
(* on the network, and the steps of different processes interleave.        *)
(*                                                                         *)
(* Further specifications cover the pure parts and one screening run:      *)
(*   SpecOutcomes  calculate_outcomes on one priced row                    *)
(*   SpecGreeks    calculate_greeks_vectorized on one batch of contracts   *)
(*   SpecFilter    query, diagnostics and sort of screen_options           *)
(*   SpecScreen    metadata loop, ticker and date workers, collection      *)
(*   SpecRate      the cached get_risk_free_rate called by ticker workers  *)
(*   SpecPools     the ticker pool of screen_options and the date pools of *)
(*                 get_option_chain; SpecPoolsFair adds that a step that   *)
(*                 can be taken is eventually taken                        *)
(* Quantities with decimals (prices, Greeks, volatility, PE) are integers  *)
(* in hundredths there.                                                    *)
(***************************************************************************)
EXTENDS Integers, FiniteSets, Sequences, TLC

VARIABLES now, raw, archive, training,
          exps,     \* the export_to_s3 processes, in order of start
          lab,      \* the run_labeling_pipeline processes, in order of start
          injected, \* storage calls that have failed so far
          orow, oout,
          bucket,   \* S3_BUCKET_NAME is set
          gIn, gOut,                 \* calculate_greeks_vectorized: call, result
          fIn, fOut,                 \* the screening filter: input, result
          sPc, sIdx, sResp, sMeta,   \* one screening run: position, metadata
          sReq, sWork, sDone, sOut,  \* loop index, answers, requests, workers
          rCache, rWork,             \* lru_cache of the rate, its callers
          pMain, pTick               \* screen_options, its ticker workers

\* the variables of the Greeks, filter and screening-run specifications
greeksVars == <<gIn, gOut>>
filterVars == <<fIn, fOut>>
runVars    == <<sPc, sIdx, sResp, sMeta, sReq, sWork, sDone, sOut>>
rateVars   == <<rCache, rWork>>
poolVars   == <<pMain, pTick>>
concVars   == <<rateVars, poolVars>>
screenVars == <<greeksVars, filterVars, runVars, concVars>>

\* the variables of the export and labeling specification
labelVars == <<now, raw, archive, training, exps, lab, injected,
               orow, oout, bucket>>

vars == <<labelVars, screenVars>>

\* ---------------------------------------------------------------- bounds
DayLen     == 2   \* clock readings per calendar day
MaxTime    == 3   \* the last clock reading
MaxExports == 2   \* screening exports uploaded in one behaviour
MaxRuns    == 2   \* labeling runs in one behaviour
MaxFaults  == 1   \* failing storage calls in one behaviour
MaxGreeks  == 2   \* contracts in one call of the Greeks engine
MaxTable   == 2   \* rows of a combined table given to the filter
MaxChain   == 1   \* contracts in one option chain of a screening run
MaxCallers == 4   \* ticker workers that call get_risk_free_rate
MaxTickers == 6   \* ticker workers submitted by one screen_options
MaxDates   == 6   \* valid expiration dates of one ticker
MaxDateTasks == 7 \* date workers submitted in one screen_options

\* ThreadPoolExecutor(max_workers=5), min(len(valid_dates), 5)
PoolSize == 5

\* ------------------------------------------------------ calendar helpers
\* strftime('%Y-%m-%d'): the calendar day of a clock reading
Day(t) == t \div DayLen

\* pd.to_datetime('<day>') / datetime.strptime(d, '%Y-%m-%d'): midnight
Midnight(d) == d * DayLen

\* timedelta(days=n)
Days(n) == n * DayLen

\* ------------------------------------------------------------ the inputs
Tickers == {"XYZ"}

\* ScreenerCriteria: the expiration window of the screen (a same-day window
\* is a legal configuration; the example configuration uses 7 and 10) and
\* the thresholds of the example configuration, decimals in hundredths
criteria ==
    [min_days |-> 0, max_days |-> 1,
     min_volume |-> 100, min_open_interest |-> 100, min_premium |-> 30,
     min_delta |-> 20, max_delta |-> 50, min_vega |-> -100, max_vega |-> 50,
     min_pe_ratio |-> 800, max_pe_ratio |-> 5000,
     min_stock_price |-> 1000, max_stock_price |-> 100000,
     min_implied_volatility |-> 30, max_implied_volatility |-> 100]

\* one contract of a chain; the market fields the labeling pipeline reads
Contract(t, e) ==
    [ticker |-> t, strike |-> 100, premium |-> 2, stock_price |-> 95,
     expiration_date |-> Midnight(e)]

\* ----------------------------------------------------------- signatures
\* f"{snapshot_date:%Y-%m-%d}_{ticker}_{strike}_{expiration_date:%Y-%m-%d}"
Signature(r) ==
    <<Day(r.snapshot_date), r.ticker, r.strike, Day(r.expiration_date)>>

\* --------------------------------------------------- outcome computation
Rat(n, d) == [num |-> n, den |-> d]

\* a > b for two fractions with non-zero denominators of either sign
RatGT(a, b) ==
    IF (a.den > 0) = (b.den > 0) THEN a.num * b.den > b.num * a.den
                                 ELSE a.num * b.den < b.num * a.den

\* the stated days_held: max(whole days from snapshot to expiration, 1)
DaysHeldMax(r) ==
    LET d == (r.expiration_date - r.snapshot_date) \div DayLen
    IN  IF d < 1 THEN 1 ELSE d

\* .dt.days of (expiration_date - snapshot_date), then replace(0, 1)
DaysHeld(r) ==
    LET d == (r.expiration_date - r.snapshot_date) \div DayLen
    IN  IF d = 0 THEN 1 ELSE d

AssignedGE(final_price, strike) == final_price >= strike

Assigned(final_price, strike) == final_price > strike

\* calculate_outcomes applied to one row that carries final_price
calculate_outcomes(r) ==
    LET assigned == Assigned(r.final_price, r.strike)
        value    == (IF assigned THEN r.strike ELSE r.final_price) + r.premium
        pct      == Rat(value - r.stock_price, r.stock_price)
        held     == DaysHeld(r)
        annual   == Rat(pct.num * 365, pct.den * held)
    IN  [snapshot_date          |-> r.snapshot_date,
         ticker                 |-> r.ticker,
         strike                 |-> r.strike,
         premium                |-> r.premium,
         stock_price            |-> r.stock_price,
         expiration_date        |-> r.expiration_date,
         final_price            |-> r.final_price,
         assigned               |-> assigned,
         realized_value         |-> value,
         realized_return_pct    |-> pct,
         target_profitable      |-> RatGT(pct, Rat(0, 1)),
         days_held              |-> held,
         realized_annual_return |-> annual,
         target_high_quality    |-> RatGT(annual, Rat(15, 100))]

\* ------------------------------------------------------ realized prices
\* The provider's answer to one history request: the request fails, or a
\* daily series whose bars fall on the days of a pattern.
HistResponses == {"fail", "all", "tue", "sun"}

HasBar(resp, d) ==
    \/ resp = "all"
    \/ resp = "tue" /\ d % 3 = 1
    \/ resp = "sun" /\ d % 3 = 2

\* the close of the bar of day d (differs between adjacent days)
CloseOn(d) == IF d % 2 = 0 THEN 105 ELSE 95

\* price_map.get((ticker, date_str)) as a set of at most one price;
\* the series spans [start_date, end_date)
PriceMap(hist, start, end, t, d) ==
    IF /\ hist[t] # "fail"
       /\ HasBar(hist[t], d)
       /\ start <= Midnight(d)
       /\ Midnight(d) < end
    THEN {CloseOn(d)} ELSE {}

GetPriceNoFallback(hist, start, end, r) ==
    PriceMap(hist, start, end, r.ticker, Day(r.expiration_date))

\* get_price: the close of the expiration date, else of the day before
GetPrice(hist, start, end, r) ==
    LET exact == PriceMap(hist, start, end, r.ticker, Day(r.expiration_date))
    IN  IF exact = {}
        THEN PriceMap(hist, start, end, r.ticker,
                      Day(r.expiration_date - Days(1)))
        ELSE exact

MinOf(S) == CHOOSE x \in S : \A y \in S : x <= y
MaxOf(S) == CHOOSE x \in S : \A y \in S : x >= y

WithPrice(r, p) ==
    [snapshot_date |-> r.snapshot_date, ticker |-> r.ticker,
     strike |-> r.strike, premium |-> r.premium,
     stock_price |-> r.stock_price, expiration_date |-> r.expiration_date,
     final_price |-> p]

\* fetch_actual_prices: rows with a price, each carrying final_price
fetch_actual_prices(df, hist, t) ==
    IF df = {} THEN {}
    ELSE LET start == MinOf({r.expiration_date : r \in df}) - Days(5)
         IN  {WithPrice(r, p) : <<r, p>> \in
                UNION {{<<r, p>> : p \in GetPrice(hist, start, t, r)} : r \in df}}

\* ---------------------------------------------------------- storage keys
\* training_data/labeled_batch_<now:%Y-%m-%d_%H-%M-%S>.parquet
BatchKey(t) == t

\* raw_data/<now:%Y-%m-%d>.parquet
SnapshotKey(t) == Day(t)

\* put_object: creates the object or replaces the one under the same key
Put(store, k, obj) ==
    [x \in (DOMAIN store) \cup {k} |-> IF x = k THEN obj ELSE store[x]]

Empty == [x \in {} |-> {}]

Ids(store, keys) == {store[k].id : k \in keys}

\* ------------------------------------------------------ dedup index build
\* the signatures of the rows of one labeled batch
Signatures(batch) == {Signature(r) : r \in batch}

\* --------------------------------------------------- raw scan and archive
\* files: the keys under raw_data/ that end in .parquet and have no
\* 'archive/' in them
Files(rw) == DOMAIN rw

GetObjectOrArchived(rw, k) ==
    IF k \in DOMAIN rw THEN {rw[k]}
    ELSE IF k \in DOMAIN archive THEN {archive[k]} ELSE {}

\* get_object of a raw_data/ key: the object stored under the key at the
\* time of the call; no object when the key is gone (the call raises)
GetObject(rw, k) == IF k \in DOMAIN rw THEN {rw[k]} ELSE {}

\* max_expiry < today
IsDead(snap, t) == MaxOf({r.expiration_date : r \in snap.rows}) < t

\* copy_object: the object under the raw key at the time of the call is
\* stored under the archive key, replacing any object already there
ArchiveAfter(ar, rw, k) == Put(ar, k, rw[k])

RawAfterNoDelete(rw, k) == rw

\* delete_object: whatever is under the raw key at the time of the call
\* leaves raw_data/
RawAfter(rw, k) == [x \in (DOMAIN rw) \ {k} |-> rw[x]]

\* ------------------------------------------------------ eligibility filter
\* expired_mask & new_mask
Eligible(df, t, index) ==
    {r \in df : r.expiration_date < t /\ Signature(r) \notin index}

\* ------------------------------------------------- processes of the model
NoRow == [none |-> TRUE]

Unasked == [t \in Tickers |-> "unasked"]

\* one run_labeling_pipeline process at its entry.  Program state: pc, the
\* labeled keys still to read (tkeys), existing_signatures (index), the raw
\* keys still to read (files), the clock reading of the raw scan (today), the
\* key being moved (cur), the rows of active_dfs (rows), to_process_df
\* (eligible), end_date of the history requests (end), final_df (labeled),
\* the batch key (key).  History: how the run ended (outcome), the provider's
\* answers (hist), whether no other process has started a labeling run or
\* stored a snapshot since the run started (alone) and, from the raw scan to
\* the eligibility filter, the snapshots the scan read and found dead (dead)
\* and the keys for which its copy_object (uncopied) or its delete_object
\* (undeleted) raised.
NewRun(alone) ==
    [pc |-> "list_labels", tkeys |-> {}, index |-> {}, files |-> {},
     today |-> -1, cur |-> -1, rows |-> {}, eligible |-> {}, end |-> -1,
     labeled |-> {}, key |-> -1, outcome |-> "none", hist |-> Unasked,
     alone |-> alone, dead |-> {}, uncopied |-> {}, undeleted |-> {}]

\* the process has ended: its program state is gone
Done(r, out) ==
    [r EXCEPT !.pc = "done", !.outcome = out, !.tkeys = {}, !.index = {},
              !.files = {}, !.today = -1, !.cur = -1, !.rows = {},
              !.eligible = {}, !.end = -1, !.labeled = {}, !.key = -1,
              !.dead = {}, !.uncopied = {}, !.undeleted = {}]

\* how a run that ended with the given outcome left run_labeling_pipeline
Exit(out) == IF out \in {"raised", "upload_failed"} THEN "raised"
                                                    ELSE "returned"

\* another process stores a snapshot: no labeling run is alone any more
Disturbed(L) == [j \in DOMAIN L |-> [L[j] EXCEPT !.alone = FALSE]]

\* another labeling run starts: no run in progress is alone any more
Joined(L) ==
    [j \in DOMAIN L |->
        IF L[j].pc = "done" THEN L[j] ELSE [L[j] EXCEPT !.alone = FALSE]]

AllRunsDone == \A j \in DOMAIN lab : lab[j].pc = "done"

\* a storage call may fail while the behaviour has failures left
CanFail == injected < MaxFaults

\* no Greeks call, no filter call, no screening run is in progress
GreeksIdle == gIn = NoRow /\ gOut = NoRow

FilterIdle == fIn = NoRow /\ fOut = NoRow

RunIdle ==
    /\ sPc = "idle" /\ sIdx = 0 /\ sResp = NoRow /\ sMeta = Empty
    /\ sReq = {} /\ sWork = Empty /\ sDone = <<>> /\ sOut = NoRow

\* no caller of get_risk_free_rate, an empty cache
RateIdle == rCache = NoRow /\ rWork = <<>>

\* no screen_options with its pools
PoolIdle == pMain = NoRow /\ pTick = <<>>

ConcIdle == RateIdle /\ PoolIdle

ScreenIdle == GreeksIdle /\ FilterIdle /\ RunIdle /\ ConcIdle

\* an empty store and no export or labeling run so far
LabelIdle ==
    /\ now = 0 /\ raw = Empty /\ archive = Empty /\ training = Empty
    /\ exps = <<>> /\ lab = <<>> /\ injected = 0
    /\ orow = NoRow /\ oout = NoRow
    /\ bucket = TRUE

----------------------------------------------------------------------------
\* Exports and labeling runs are separate processes on one bucket: a step
\* below is one clock reading or one call that blocks on the network, with
\* the local computation that follows it.

Init ==
    /\ now = 0
    /\ raw = Empty
    /\ archive = Empty
    /\ training = Empty
    /\ exps = <<>>
    /\ lab = <<>>
    /\ injected = 0
    /\ orow = NoRow
    /\ oout = NoRow
    /\ bucket \in BOOLEAN
    /\ ScreenIdle

\* the clock advances by one reading
Tick ==
    /\ now < MaxTime
    /\ now' = now + 1
    /\ UNCHANGED <<raw, archive, training, exps, lab, injected, orow, oout,
                   bucket, screenVars>>

\* the contracts a screen that ran on day d can return: get_option_chain
\* keeps the dates e with today + min_days <= e <= today + max_days
ScreenCandidates(d) ==
    {Contract(tk, e) : tk \in Tickers,
                       e \in (d + criteria.min_days) .. (d + criteria.max_days)}

\* results['snapshot_date'] = pd.to_datetime(today_str)
Stamp(rows, t) ==
    {[snapshot_date |-> Midnight(Day(t)), ticker |-> c.ticker,
      strike |-> c.strike, premium |-> c.premium,
      stock_price |-> c.stock_price,
      expiration_date |-> c.expiration_date] : c \in rows}

\* export_to_s3 up to the call of upload_parquet: screen_options returns a
\* result table computed on day `screened` (today, or yesterday when the
\* screen ran across midnight); an empty table ends the export, otherwise
\* the clock is read, and the table is stamped with its date and gets the
\* key of that date
ExportStart ==
    /\ Len(exps) < MaxExports
    /\ \E screened \in {d \in {Day(now) - 1, Day(now)} : d >= 0} :
       \E rows \in SUBSET ScreenCandidates(screened) :
          exps' = Append(exps,
                     IF rows = {}
                     THEN [pc |-> "done", key |-> -1, rows |-> {},
                           out |-> "empty", exit |-> "returned"]
                     ELSE [pc |-> "put", key |-> SnapshotKey(now),
                           rows |-> Stamp(rows, now),
                           out |-> "none", exit |-> "none"])
    /\ UNCHANGED <<now, raw, archive, training, lab, injected, orow, oout,
                   bucket, screenVars>>

\* upload_parquet called by export_to_s3: put_object stores the snapshot
\* under its key; a failed upload is caught and logged by export_to_s3, and
\* so is the upload to Bucket=None when S3_BUCKET_NAME is not set: the
\* export returns normally in every case (the record of an export that has
\* stored its snapshot keeps the key it used)
ExportUpload(i) ==
    /\ exps[i].pc = "put"
    /\ \E ok \in BOOLEAN :
          /\ ok => bucket
          /\ (bucket /\ ~ok) => CanFail
          /\ injected' = IF ok \/ ~bucket THEN injected ELSE injected + 1
          /\ raw' = IF ok
                    THEN Put(raw, exps[i].key,
                             [id |-> i, rows |-> exps[i].rows])
                    ELSE raw
          /\ exps' = [exps EXCEPT ![i] =
                        [pc |-> "done",
                         key |-> IF ok THEN exps[i].key ELSE -1,
                         rows |-> {},
                         out |-> IF ok THEN "stored" ELSE "failed",
                         exit |-> "returned"]]
          /\ lab' = IF ok THEN Disturbed(lab) ELSE lab
    /\ UNCHANGED <<now, archive, training, orow, oout, bucket, screenVars>>

\* one step of an export
ExportToS3 == ExportStart \/ \E e \in DOMAIN exps : ExportUpload(e)

\* the variables a step of a labeling run may leave alone
StoreUnchanged == UNCHANGED <<raw, archive, training>>

RunFrame == UNCHANGED <<now, exps, orow, oout, bucket, screenVars>>

\* run_labeling_pipeline starts: when S3_BUCKET_NAME is not set the error is
\* logged and the function returns before any storage call
RunStart ==
    /\ Len(lab) < MaxRuns
    /\ lab' = IF bucket THEN Append(Joined(lab), NewRun(AllRunsDone))
                        ELSE Append(lab, Done(NewRun(TRUE), "no_bucket"))
    /\ UNCHANGED injected
    /\ StoreUnchanged
    /\ RunFrame

\* load_existing_labels: list_objects_v2 of training_data/; a failure is not
\* caught and leaves run_labeling_pipeline
ListLabels(i) ==
    LET r == lab[i] IN
    /\ r.pc = "list_labels"
    /\ \E ok \in BOOLEAN :
          /\ ok \/ CanFail
          /\ injected' = IF ok THEN injected ELSE injected + 1
          /\ lab' = [lab EXCEPT ![i] =
                IF ~ok THEN Done(r, "raised")
                ELSE [r EXCEPT !.tkeys = DOMAIN training,
                               !.pc = IF DOMAIN training = {}
                                      THEN "list_raw" ELSE "get_label"]]
    /\ StoreUnchanged
    /\ RunFrame

\* load_existing_labels: get_object of the next listed batch and the
\* signatures of its rows; a batch that cannot be read is skipped
GetLabel(i) ==
    LET r  == lab[i]
        k  == MinOf(r.tkeys)
        tk == r.tkeys \ {k}
    IN
    /\ r.pc = "get_label"
    /\ \E ok \in BOOLEAN :
          /\ ok \/ CanFail
          /\ injected' = IF ok THEN injected ELSE injected + 1
          /\ lab' = [lab EXCEPT ![i] =
                [r EXCEPT !.tkeys = tk,
                          !.index = IF ok THEN @ \cup Signatures(training[k])
                                          ELSE @,
                          !.pc = IF tk = {} THEN "list_raw"
                                            ELSE "get_label"]]
    /\ StoreUnchanged
    /\ RunFrame

\* one step of load_existing_labels
load_existing_labels ==
    \/ \E i \in DOMAIN lab : ListLabels(i)
    \/ \E i \in DOMAIN lab : GetLabel(i)

\* process_and_archive_raw_data: list_objects_v2 of raw_data/; a failure is
\* not caught; without a file the function returns an empty frame and the
\* run ends
ListRaw(i) ==
    LET r == lab[i] IN
    /\ r.pc = "list_raw"
    /\ \E ok \in BOOLEAN :
          /\ ok \/ CanFail
          /\ injected' = IF ok THEN injected ELSE injected + 1
          /\ lab' = [lab EXCEPT ![i] =
                IF ~ok THEN Done(r, "raised")
                ELSE IF Files(raw) = {} THEN Done(r, "no_raw")
                ELSE [r EXCEPT !.files = Files(raw), !.pc = "clock_scan"]]
    /\ StoreUnchanged
    /\ RunFrame

\* process_and_archive_raw_data: today = datetime.now()
ReadScanClock(i) ==
    LET r == lab[i] IN
    /\ r.pc = "clock_scan"
    /\ lab' = [lab EXCEPT ![i] = [r EXCEPT !.today = now, !.pc = "get_raw"]]
    /\ UNCHANGED injected
    /\ StoreUnchanged
    /\ RunFrame

\* the loop over files goes on after key k: to the next file, or out of the
\* function, where an empty raw_df ends the run
NextFile(r, k) ==
    LET rest == r.files \ {k} IN
    IF rest # {} THEN [r EXCEPT !.files = rest, !.cur = -1, !.pc = "get_raw"]
    ELSE IF r.rows = {} THEN Done(r, "no_raw")
    ELSE [r EXCEPT !.files = {}, !.cur = -1, !.today = -1,
                   !.pc = "clock_filter"]

\* process_and_archive_raw_data: get_object of the next file; a file that
\* cannot be read is skipped; the rows of a file that was read are kept,
\* and a dead file goes to move_to_archive
GetRaw(i) ==
    LET r   == lab[i]
        k   == MinOf(r.files)
        got == GetObject(raw, k)
    IN
    /\ r.pc = "get_raw"
    /\ \E ok \in BOOLEAN :
          /\ ok \/ (CanFail /\ got # {})
          /\ injected' = IF ok THEN injected ELSE injected + 1
          /\ lab' = [lab EXCEPT ![i] =
                IF ~ok \/ got = {} THEN NextFile(r, k)
                ELSE LET snap == CHOOSE s \in got : TRUE
                         read == [r EXCEPT !.rows = @ \cup snap.rows]
                     IN  IF IsDead(snap, r.today)
                         THEN [read EXCEPT !.cur = k, !.pc = "copy",
                                           !.dead = @ \cup {snap.id}]
                         ELSE NextFile(read, k)]
    /\ StoreUnchanged
    /\ RunFrame

\* move_to_archive: copy_object; a failure (of the call, or because the key
\* is gone) is caught and the file is left alone
CopyObject(i) ==
    LET r == lab[i]
        k == r.cur
    IN
    /\ r.pc = "copy"
    /\ \E ok \in BOOLEAN :
          /\ ok \/ (CanFail /\ k \in DOMAIN raw)
          /\ injected' = IF ok THEN injected ELSE injected + 1
          /\ IF ok /\ k \in DOMAIN raw
             THEN /\ archive' = ArchiveAfter(archive, raw, k)
                  /\ lab' = [lab EXCEPT ![i] = [r EXCEPT !.pc = "delete"]]
             ELSE /\ archive' = archive
                  /\ lab' = [lab EXCEPT ![i] =
                               NextFile([r EXCEPT !.uncopied = @ \cup {k}],
                                        k)]
    /\ UNCHANGED <<raw, training>>
    /\ RunFrame

\* move_to_archive: delete_object, reached after copy_object returned; a
\* failure is caught
DeleteObject(i) ==
    LET r == lab[i]
        k == r.cur
    IN
    /\ r.pc = "delete"
    /\ \E ok \in BOOLEAN :
          /\ ok \/ CanFail
          /\ injected' = IF ok THEN injected ELSE injected + 1
          /\ raw' = IF ok THEN RawAfter(raw, k) ELSE raw
          /\ lab' = [lab EXCEPT ![i] =
                IF ok THEN NextFile(r, k)
                ELSE NextFile([r EXCEPT !.undeleted = @ \cup {k}], k)]
    /\ UNCHANGED <<archive, training>>
    /\ RunFrame

\* one step of move_to_archive
move_to_archive ==
    \/ \E i \in DOMAIN lab : CopyObject(i)
    \/ \E i \in DOMAIN lab : DeleteObject(i)

\* one step of process_and_archive_raw_data
process_and_archive_raw_data ==
    \/ \E i \in DOMAIN lab : ListRaw(i)
    \/ \E i \in DOMAIN lab : ReadScanClock(i)
    \/ \E i \in DOMAIN lab : GetRaw(i)
    \/ move_to_archive

\* run_labeling_pipeline: today = datetime.now(), expired_mask & new_mask;
\* without a row to process the run ends
SelectEligible(i) ==
    LET r  == lab[i]
        to_process_df == Eligible(r.rows, now, r.index)
    IN
    /\ r.pc = "clock_filter"
    /\ lab' = [lab EXCEPT ![i] =
          IF to_process_df = {} THEN Done(r, "up_to_date")
          ELSE [r EXCEPT !.eligible = to_process_df, !.rows = {},
                         !.index = {}, !.dead = {}, !.uncopied = {},
                         !.undeleted = {}, !.pc = "fetch"]]
    /\ UNCHANGED injected
    /\ StoreUnchanged
    /\ RunFrame

\* fetch_actual_prices: end_date = datetime.now()
ReadEndClock(i) ==
    LET r == lab[i] IN
    /\ r.pc = "fetch"
    /\ lab' = [lab EXCEPT ![i] = [r EXCEPT !.end = now, !.pc = "download"]]
    /\ UNCHANGED injected
    /\ StoreUnchanged
    /\ RunFrame

\* the tickers of the rows whose history has not been requested yet
Pending(r) == {t \in {e.ticker : e \in r.eligible} : r.hist[t] = "unasked"}

\* fetch_actual_prices: yf.download of one ticker of the eligible rows (a
\* failing request is caught); after the answer for the last ticker, the
\* price lookup: without a priced row the run ends, otherwise
\* calculate_outcomes builds final_df
Download(i) ==
    LET r == lab[i] IN
    /\ r.pc = "download"
    /\ \E t \in Pending(r), resp \in HistResponses :
          LET hist == [r.hist EXCEPT ![t] = resp]
              labeled_df == fetch_actual_prices(r.eligible, hist, r.end)
          IN  lab' = [lab EXCEPT ![i] =
                IF Pending(r) # {t}
                THEN [r EXCEPT !.hist = hist]
                ELSE IF labeled_df = {}
                THEN [Done(r, "no_prices") EXCEPT !.hist = hist]
                ELSE [r EXCEPT !.hist = hist,
                               !.labeled = {calculate_outcomes(p) :
                                               p \in labeled_df},
                               !.pc = "clock_key"]]
    /\ UNCHANGED injected
    /\ StoreUnchanged
    /\ RunFrame

\* one step of fetch_actual_prices called by run_labeling_pipeline
FetchPrices ==
    \/ \E i \in DOMAIN lab : ReadEndClock(i)
    \/ \E i \in DOMAIN lab : Download(i)

\* run_labeling_pipeline: today_str = datetime.now().strftime(...), file_key
ReadBatchClock(i) ==
    LET r == lab[i] IN
    /\ r.pc = "clock_key"
    /\ lab' = [lab EXCEPT ![i] =
                 [r EXCEPT !.key = BatchKey(now), !.pc = "put"]]
    /\ UNCHANGED injected
    /\ StoreUnchanged
    /\ RunFrame

\* upload_parquet called by run_labeling_pipeline: put_object stores the
\* batch under its key; a failure is logged, raised again and not caught
UploadBatch(i) ==
    LET r == lab[i] IN
    /\ r.pc = "put"
    /\ \E ok \in BOOLEAN :
          /\ ok \/ CanFail
          /\ injected' = IF ok THEN injected ELSE injected + 1
          /\ training' = IF ok THEN Put(training, r.key, r.labeled)
                               ELSE training
          /\ lab' = [lab EXCEPT ![i] =
                Done(r, IF ok THEN "emitted" ELSE "upload_failed")]
    /\ UNCHANGED <<raw, archive>>
    /\ RunFrame

\* one step of a labeling run
RunLabelingPipeline ==
    \/ RunStart
    \/ load_existing_labels
    \/ process_and_archive_raw_data
    \/ \E i \in DOMAIN lab : SelectEligible(i)
    \/ FetchPrices
    \/ \E i \in DOMAIN lab : ReadBatchClock(i)
    \/ \E i \in DOMAIN lab : UploadBatch(i)

Next ==
    \/ Tick
    \/ ExportToS3
    \/ RunLabelingPipeline

Spec == Init /\ [][Next]_vars

----------------------------------------------------------------------------
\* calculate_outcomes as a function of one priced row

OutcomeInputs ==
    {[snapshot_date |-> Midnight(0), ticker |-> "XYZ", strike |-> k,
      premium |-> p, stock_price |-> s, expiration_date |-> Midnight(e),
      final_price |-> f] :
        k \in {95, 100}, p \in {0, 2}, s \in {95, 100, 110},
        e \in {-1, 0, 1, 7}, f \in {90, 100, 105}}

InitOutcomes ==
    /\ now = 0
    /\ raw = Empty
    /\ archive = Empty
    /\ training = Empty
    /\ exps = <<>>
    /\ lab = <<>>
    /\ injected = 0
    /\ orow \in OutcomeInputs
    /\ oout = NoRow
    /\ bucket = TRUE
    /\ ScreenIdle

ApplyOutcomes ==
    /\ oout = NoRow
    /\ oout' = calculate_outcomes(orow)
    /\ UNCHANGED <<now, raw, archive, training, exps, lab, injected,
                   orow, bucket, screenVars>>

NextOutcomes == ApplyOutcomes

SpecOutcomes == InitOutcomes /\ [][NextOutcomes]_vars

----------------------------------------------------------------------------
\* the Greeks engine (quantities with decimals are held in hundredths)

\* get_risk_free_rate; rates are integers in ten-thousandths
\* the except branch: return 0.0425
FallbackRate == 425

\* treasury_rate.iloc[-1] / 100 of a fetch that succeeds
ProviderRates == {500}

\* what one call of the wrapped function returns: the provider's rate, or
\* the fallback when the fetch raised
FetchResults == ProviderRates \cup {FallbackRate}

\* the Black-Scholes closed form for one contract (d1, d2, norm.cdf,
\* norm.pdf, theta per day, vega and rho per 1%), tabulated for a spot price
\* of 100.00 and a volatility of 0.30 and rounded to the nearest hundredth;
\* T is in days (the code passes T / 365), r in ten-thousandths
ClosedForm(S, k, T, r, sigma) ==
    CASE k = 9950 /\ T = 1 /\ r = 425 ->
          [delta |-> 63, gamma |-> 24, theta |-> -30, vega |-> 2, rho |-> 0]
      [] k = 9950 /\ T = 1 /\ r = 500 ->
          [delta |-> 63, gamma |-> 24, theta |-> -30, vega |-> 2, rho |-> 0]
      [] k = 9950 /\ T = 7 /\ r = 425 ->
          [delta |-> 56, gamma |-> 9, theta |-> -12, vega |-> 5, rho |-> 1]
      [] k = 9950 /\ T = 7 /\ r = 500 ->
          [delta |-> 57, gamma |-> 9, theta |-> -12, vega |-> 5, rho |-> 1]
      [] k = 10050 /\ T = 1 /\ r = 425 ->
          [delta |-> 38, gamma |-> 24, theta |-> -30, vega |-> 2, rho |-> 0]
      [] k = 10050 /\ T = 1 /\ r = 500 ->
          [delta |-> 38, gamma |-> 24, theta |-> -30, vega |-> 2, rho |-> 0]
      [] k = 10050 /\ T = 7 /\ r = 425 ->
          [delta |-> 47, gamma |-> 10, theta |-> -12, vega |-> 6, rho |-> 1]
      [] k = 10050 /\ T = 7 /\ r = 500 ->
          [delta |-> 47, gamma |-> 10, theta |-> -12, vega |-> 6, rho |-> 1]

ZeroGreeks == [delta |-> 0, gamma |-> 0, theta |-> 0, vega |-> 0, rho |-> 0]

\* the edge-case test: T <= 0 or np.any(sigma <= 0)
GreeksEdgeCase(T, sigma) ==
    T <= 0 \/ \E i \in 1..Len(sigma) : sigma[i] <= 0

\* the spot prices, strikes, times in days, rates and volatilities of the
\* tabulated closed form
GreeksSpot    == 10000
GreeksStrikes == {9950, 10050}
GreeksDays    == {1, 7}
GreeksSigma   == 30

\* calculate_greeks_vectorized(S, K, T, r, sigma).  In the edge case the
\* function builds pd.DataFrame({'delta': 0, ...}) from scalars only, which
\* pandas rejects with ValueError (all scalar values need an index): the call
\* raises.  Otherwise it returns one row of Greeks per contract.
calculate_greeks_vectorized(S, K, T, r, sigma) ==
    IF GreeksEdgeCase(T, sigma)
    THEN [raised |-> TRUE, table |-> <<>>]
    ELSE [raised |-> FALSE,
          table |-> [i \in 1..Len(K) |->
                        ClosedForm(S, K[i], T, r, sigma[i])]]

GreeksInputs ==
    {[S |-> GreeksSpot, K |-> k, T |-> t, r |-> r, sigma |-> sg] :
        t \in {-1, 0} \cup GreeksDays,
        r \in FetchResults,
        k \in UNION {[1..n -> GreeksStrikes] : n \in 1..MaxGreeks},
        sg \in UNION {[1..n -> {-10, 0, GreeksSigma}] : n \in 1..MaxGreeks}}

InitGreeks ==
    /\ LabelIdle
    /\ FilterIdle
    /\ RunIdle
    /\ ConcIdle
    /\ gIn \in {g \in GreeksInputs : Len(g.K) = Len(g.sigma)}
    /\ gOut = NoRow

ApplyGreeks ==
    /\ gOut = NoRow
    /\ gOut' = calculate_greeks_vectorized(gIn.S, gIn.K, gIn.T, gIn.r,
                                           gIn.sigma)
    /\ UNCHANGED <<labelVars, gIn, filterVars, runVars, concVars>>

NextGreeks == ApplyGreeks

SpecGreeks == InitGreeks /\ [][NextGreeks]_vars

----------------------------------------------------------------------------
\* the screening filter: query, diagnostics, sort

\* Series.between(lo, hi), inclusive on both sides
Between(x, lo, hi) == lo <= x /\ x <= hi

PassesPENoEscape(r, c) == Between(r.pe_ratio, c.min_pe_ratio, c.max_pe_ratio)

\* pe_ratio == 0 or pe_ratio.between(min_pe_ratio, max_pe_ratio)
PassesPE(r, c) ==
    r.pe_ratio = 0 \/ Between(r.pe_ratio, c.min_pe_ratio, c.max_pe_ratio)

\* the query string of screen_options
Passes(r, c) ==
    /\ r.strike >= r.stock_price
    /\ r.volume >= c.min_volume
    /\ r.premium >= c.min_premium
    /\ Between(r.delta, c.min_delta, c.max_delta)
    /\ Between(r.vega, c.min_vega, c.max_vega)
    /\ PassesPE(r, c)
    /\ Between(r.stock_price, c.min_stock_price, c.max_stock_price)
    /\ r.open_interest >= c.min_open_interest
    /\ Between(r.implied_volatility, c.min_implied_volatility,
               c.max_implied_volatility)

\* df.query(query_str): the passing rows, in the order of df
Query(df, c) == SelectSeq(df, LAMBDA r : Passes(r, c))

\* the pass counts printed when the filter leaves nothing: volume, premium
\* and delta
Diagnostics(df, c) ==
    [volume  |-> Len(SelectSeq(df, LAMBDA r : r.volume >= c.min_volume)),
     premium |-> Len(SelectSeq(df, LAMBDA r : r.premium >= c.min_premium)),
     delta   |-> Len(SelectSeq(df, LAMBDA r :
                        Between(r.delta, c.min_delta, c.max_delta)))]

NoDiagnostics == [printed |-> FALSE]

RatEQ(a, b) == a.num * b.den = b.num * a.den

SortsBeforePremiumOnly(a, b) == RatGT(a.premium_return, b.premium_return)

\* the sort order: premium_return descending, then days_to_expiry ascending
SortsBefore(a, b) ==
    \/ RatGT(a.premium_return, b.premium_return)
    \/ /\ RatEQ(a.premium_return, b.premium_return)
       /\ a.days_to_expiry < b.days_to_expiry

RECURSIVE InsertSorted(_, _)
\* r goes after every row that does not sort strictly after it
InsertSorted(r, sorted) ==
    IF sorted = <<>> THEN <<r>>
    ELSE IF SortsBefore(r, Head(sorted)) THEN <<r>> \o sorted
    ELSE <<Head(sorted)>> \o InsertSorted(r, Tail(sorted))

RECURSIVE sort_values(_)
\* DataFrame.sort_values on two columns: a stable sort, rows that tie on both
\* keys keep the order of the input
sort_values(df) ==
    IF df = <<>> THEN <<>>
    ELSE InsertSorted(df[Len(df)], sort_values(SubSeq(df, 1, Len(df) - 1)))

\* screen_options from the combined table on: query, diagnostics when the
\* query leaves nothing, sorted result
FilterAndRank(df, c) ==
    LET filtered == Query(df, c)
    IN  [diag  |-> IF filtered = <<>> /\ df # <<>>
                   THEN Diagnostics(df, c) ELSE NoDiagnostics,
         table |-> sort_values(filtered)]

\* premium_return = (lastPrice / S) * 100
PremiumReturn(premium, S) == Rat(premium * 100, S)

\* a row of the combined table that sits on the passing side of each bound
\* of the example thresholds
BaseRow ==
    [ticker |-> "AAA", expiration_date |-> 1, strike |-> 10500,
     premium |-> 60, volume |-> 100, open_interest |-> 100,
     implied_volatility |-> 30, delta |-> 20, gamma |-> 3, theta |-> -5,
     vega |-> 50, rho |-> 2, stock_price |-> 10000, pe_ratio |-> 800,
     days_to_expiry |-> 1, premium_return |-> PremiumReturn(60, 10000)]

\* BaseRow and the rows that differ from it on one side of one bound
FilterRows ==
    {BaseRow}
    \cup {[BaseRow EXCEPT !.strike = x] : x \in {10000, 9999}}
    \cup {[BaseRow EXCEPT !.volume = 99], [BaseRow EXCEPT !.open_interest = 99]}
    \cup {[BaseRow EXCEPT !.premium = x,
                          !.premium_return = PremiumReturn(x, 10000)] :
             x \in {30, 29}}
    \cup {[BaseRow EXCEPT !.delta = x] : x \in {19, 50, 51}}
    \cup {[BaseRow EXCEPT !.vega = x] : x \in {51, -100, -101}}
    \cup {[BaseRow EXCEPT !.pe_ratio = x] : x \in {0, 500, 799, 5000, 5001}}
    \cup {[BaseRow EXCEPT !.stock_price = x, !.strike = y,
                          !.premium_return = PremiumReturn(60, x)] :
             x \in {999, 1000}, y \in {10500}}
    \cup {[BaseRow EXCEPT !.stock_price = x, !.strike = x,
                          !.premium_return = PremiumReturn(60, x)] :
             x \in {100000, 100001}}
    \cup {[BaseRow EXCEPT !.implied_volatility = x] : x \in {29, 100, 101}}
    \cup {[BaseRow EXCEPT !.days_to_expiry = x, !.expiration_date = x] :
             x \in {0, 8}}

\* the example thresholds, and a narrower PE range
FilterCriteria ==
    {criteria, [criteria EXCEPT !.min_pe_ratio = 100, !.max_pe_ratio = 600]}

InitFilter ==
    /\ LabelIdle
    /\ GreeksIdle
    /\ RunIdle
    /\ ConcIdle
    /\ fIn \in {[df |-> df, c |-> c] :
                  df \in UNION {[1..n -> FilterRows] : n \in 1..MaxTable},
                  c \in FilterCriteria}
    /\ fOut = NoRow

ApplyFilter ==
    /\ fOut = NoRow
    /\ fOut' = FilterAndRank(fIn.df, fIn.c)
    /\ UNCHANGED <<labelVars, greeksVars, fIn, runVars, concVars>>

NextFilter == ApplyFilter

SpecFilter == InitFilter /\ [][NextFilter]_vars

----------------------------------------------------------------------------
\* one screening run: metadata loop, ticker workers, date workers, collection

\* self.stocks, in the order of the configuration
stocks == <<"AAA", "BBB">>

\* what stock.info can give for one ticker:
\*   raise     the request raises
\*   empty     an empty info
\*   noprice   no price field
\*   zero      a price of 0
\*   dividend  a price and a dividendDate
\*   etf       a price, no trailingPE, no dividendDate
\*   stock     a price, a trailingPE of 20, no dividendDate
MetaResponses ==
    {"raise", "empty", "noprice", "zero", "dividend", "etf", "stock"}

\* get_stock_metadata, one ticker: the entry of batch_info, or none when the
\* ticker is skipped.  The dividendDate branch calls pd.to_datetime in a
\* module that does not import pd: NameError, caught by the outer except.
MetadataEntry(t, resp) ==
    IF resp \in {"raise", "empty", "noprice", "zero", "dividend"}
    THEN NoRow
    ELSE [ticker |-> t, stock_price |-> 10000,
          pe_ratio |-> IF resp = "etf" THEN 0 ELSE 2000]

\* what yf.Ticker(t).options can give: a failure (get_expiration_dates then
\* returns []) or a list of expiration days
DateResponses ==
    {[status |-> "fail", dates |-> <<>>],
     [status |-> "ok", dates |-> <<2>>],
     [status |-> "ok", dates |-> <<0>>],
     [status |-> "ok", dates |-> <<-1, 1>>],
     [status |-> "ok", dates |-> <<0, 1, 2>>]}

\* the contracts a chain can hold: strike 100.50, lastPrice 0.60 with
\* implied volatility 0.30, and strike 99.50, lastPrice 0.30 with implied
\* volatility 0
ChainContracts ==
    {[strike |-> 10050, lastPrice |-> 60, volume |-> 100,
      openInterest |-> 100, impliedVolatility |-> 30],
     [strike |-> 9950, lastPrice |-> 30, volume |-> 100,
      openInterest |-> 100, impliedVolatility |-> 0]}

\* what option_chain(date).calls can give: a failure, an empty table, or
\* rows, one per strike in increasing order of strike
ChainResponses ==
    {[status |-> "fail", calls |-> <<>>], [status |-> "empty", calls |-> <<>>]}
    \cup {[status |-> "ok", calls |-> c] :
             c \in {q \in UNION {[1..n -> ChainContracts] : n \in 1..MaxChain} :
                      \A i \in 1..(Len(q) - 1) :
                         q[i].strike < q[i + 1].strike}}

TodayNotTruncated == now

\* today = datetime.now().replace(hour=0, minute=0, second=0, microsecond=0)
Today == Midnight(Day(now))

\* the dates d of the list with min_bound <= d <= max_bound, in list order
ValidDates(dates, today) ==
    SelectSeq(dates, LAMBDA d :
        /\ today + Days(criteria.min_days) <= Midnight(d)
        /\ Midnight(d) <= today + Days(criteria.max_days))

\* process_single_date: no rows when the chain request failed or gave no
\* rows, when the ticker has no metadata (the subscript of None raises and
\* is caught) or when the price is 0; otherwise one row per contract with
\* the Greeks (all 0 when the engine raised) and the metrics.
\* days_to_expiry is the raw day difference; max(., 1) is used only for T
\* and for the per-day metrics.
process_single_date(t, d, resp, info, risk_free_rate, today) ==
    IF resp.status # "ok" \/ resp.calls = <<>> \/ info = NoRow THEN <<>>
    ELSE IF info.stock_price = 0 THEN <<>>
    ELSE
      LET S      == info.stock_price
          calls  == resp.calls
          days_to_expiry == (Midnight(d) - today) \div DayLen
          T      == IF days_to_expiry > 1 THEN days_to_expiry ELSE 1
          g      == calculate_greeks_vectorized(
                       S, [i \in 1..Len(calls) |-> calls[i].strike], T,
                       risk_free_rate,
                       [i \in 1..Len(calls) |-> calls[i].impliedVolatility])
          greeks == IF g.raised THEN [i \in 1..Len(calls) |-> ZeroGreeks]
                    ELSE g.table
      IN  [i \in 1..Len(calls) |->
             [expiration_date |-> d,
              strike |-> calls[i].strike,
              premium |-> calls[i].lastPrice,
              volume |-> calls[i].volume,
              open_interest |-> calls[i].openInterest,
              implied_volatility |-> calls[i].impliedVolatility,
              delta |-> greeks[i].delta, gamma |-> greeks[i].gamma,
              theta |-> greeks[i].theta, vega |-> greeks[i].vega,
              rho |-> greeks[i].rho,
              days_to_expiry |-> days_to_expiry,
              premium_return |-> PremiumReturn(calls[i].lastPrice, S)]]

\* the metadata columns joined to the rows of one ticker
WithMetadata(rows, info) ==
    [i \in 1..Len(rows) |->
        [ticker |-> info.ticker, stock_price |-> info.stock_price,
         pe_ratio |-> info.pe_ratio,
         expiration_date |-> rows[i].expiration_date,
         strike |-> rows[i].strike, premium |-> rows[i].premium,
         volume |-> rows[i].volume, open_interest |-> rows[i].open_interest,
         implied_volatility |-> rows[i].implied_volatility,
         delta |-> rows[i].delta, gamma |-> rows[i].gamma,
         theta |-> rows[i].theta, vega |-> rows[i].vega, rho |-> rows[i].rho,
         days_to_expiry |-> rows[i].days_to_expiry,
         premium_return |-> rows[i].premium_return]]

RECURSIVE Concat(_)
\* pd.concat(frames, ignore_index=True)
Concat(frames) ==
    IF frames = <<>> THEN <<>> ELSE Head(frames) \o Concat(Tail(frames))

GatherDatesAllOrNothing(valid, order, res) ==
    IF \E i \in 1..Len(valid) : res[valid[i]] = <<>> THEN <<>>
    ELSE [i \in 1..Len(valid) |-> res[valid[i]]]

\* [f.result() for f in futures if f.result() is not None]: the results of
\* the date workers in the order of valid_dates, whatever the order in which
\* they completed
GatherDates(valid, order, res) ==
    LET kept == SelectSeq(valid, LAMBDA d : res[d] # <<>>)
    IN  [i \in 1..Len(kept) |-> res[kept[i]]]

SubmittedAll(map) == stocks

\* the tickers a worker is submitted for: t in self.stocks if t in the map
Submitted(map) == SelectSeq(stocks, LAMBDA t : t \in DOMAIN map)

GatherTickersAsCompleted(submitted, done, work) ==
    LET kept == SelectSeq(done, LAMBDA t : work[t].result # <<>>)
    IN  [i \in 1..Len(kept) |-> work[kept[i]].result]

\* for f in futures: res = f.result(); if res is not None: results.append
\* the results of the ticker workers in the order of submission
GatherTickers(submitted, done, work) ==
    LET kept == SelectSeq(submitted, LAMBDA t : work[t].result # <<>>)
    IN  [i \in 1..Len(kept) |-> work[kept[i]].result]

\* the answers a run received: metadata, the rate and the clock reading of
\* each ticker worker, expiration dates, chains
NoAnswers ==
    [meta |-> Empty, rate |-> Empty, clock |-> Empty, dates |-> Empty,
     chain |-> Empty]

\* a ticker worker; rate and today are -1 until the worker has them
NewWorker ==
    [st |-> "submitted", rate |-> -1, today |-> -1, valid |-> <<>>,
     res |-> Empty,
     order |-> <<>>, result |-> <<>>]

Request(kind, t, d) == [kind |-> kind, ticker |-> t, date |-> d]

\* a screening run starts at any time of day 0
InitScreen ==
    /\ now \in 0..(DayLen - 1)
    /\ raw = Empty /\ archive = Empty /\ training = Empty
    /\ exps = <<>> /\ lab = <<>> /\ injected = 0
    /\ orow = NoRow /\ oout = NoRow
    /\ bucket = TRUE
    /\ GreeksIdle
    /\ FilterIdle
    /\ ConcIdle
    /\ sPc = "meta"
    /\ sIdx = 1
    /\ sResp = NoAnswers
    /\ sMeta = Empty
    /\ sReq = {}
    /\ sWork = Empty
    /\ sDone = <<>>
    /\ sOut = NoRow

\* get_stock_metadata: one pass of its loop over self.stocks
MetadataStep ==
    /\ sPc = "meta"
    /\ sIdx <= Len(stocks)
    /\ \E resp \in MetaResponses :
          LET t     == stocks[sIdx]
              entry == MetadataEntry(t, resp)
          IN  /\ sResp' = [sResp EXCEPT !.meta = Put(sResp.meta, t, resp)]
              /\ sReq' = sReq \cup {Request("info", t, -1)}
              /\ sMeta' = IF entry = NoRow THEN sMeta ELSE Put(sMeta, t, entry)
    /\ sIdx' = sIdx + 1
    /\ UNCHANGED <<labelVars, greeksVars, filterVars, concVars,
                   sPc, sWork, sDone, sOut>>

\* screen_options after get_stock_metadata returned: one get_option_chain
\* is submitted for each ticker of the metadata map
SubmitTickers ==
    /\ sPc = "meta"
    /\ sIdx > Len(stocks)
    /\ sPc' = "fetch"
    /\ sWork' = LET sub == Submitted(sMeta)
                IN  [t \in {sub[i] : i \in 1..Len(sub)} |-> NewWorker]
    /\ UNCHANGED <<labelVars, greeksVars, filterVars, concVars,
                   sIdx, sResp, sMeta, sReq,
                   sDone, sOut>>

\* get_option_chain: the worker gets the rate from get_risk_free_rate (a
\* fetch or the cache, SpecRate)
GetRate(t) ==
    /\ sPc = "fetch"
    /\ t \in DOMAIN sWork
    /\ sWork[t].st = "submitted"
    /\ \E rate \in FetchResults :
          /\ sResp' = [sResp EXCEPT !.rate = Put(sResp.rate, t, rate)]
          /\ sWork' = [sWork EXCEPT ![t].st = "rated", ![t].rate = rate]
    /\ UNCHANGED <<labelVars, greeksVars, filterVars, concVars,
                   sPc, sIdx, sMeta, sReq, sDone, sOut>>

\* get_option_chain: today = datetime.now() truncated to midnight
ReadClock(t) ==
    /\ sPc = "fetch"
    /\ t \in DOMAIN sWork
    /\ sWork[t].st = "rated"
    /\ sResp' = [sResp EXCEPT !.clock = Put(sResp.clock, t, Today)]
    /\ sWork' = [sWork EXCEPT ![t].st = "clocked", ![t].today = Today]
    /\ UNCHANGED <<labelVars, greeksVars, filterVars, concVars,
                   sPc, sIdx, sMeta, sReq, sDone, sOut>>

\* get_option_chain: the worker asks for the ticker's expiration dates and
\* filters them; without a valid date it returns None, otherwise it submits
\* its date workers
GetDates(t) ==
    /\ sPc = "fetch"
    /\ t \in DOMAIN sWork
    /\ sWork[t].st = "clocked"
    /\ \E resp \in DateResponses :
          LET valid == ValidDates(resp.dates, sWork[t].today)
          IN  /\ sResp' = [sResp EXCEPT !.dates = Put(sResp.dates, t, resp)]
              /\ sReq' = sReq \cup {Request("options", t, -1)}
              /\ IF valid = <<>>
                 THEN /\ sWork' = [sWork EXCEPT ![t].st = "done"]
                      /\ sDone' = Append(sDone, t)
                 ELSE /\ sWork' = [sWork EXCEPT ![t].st = "dates",
                                                ![t].valid = valid]
                      /\ sDone' = sDone
    /\ UNCHANGED <<labelVars, greeksVars, filterVars, concVars,
                   sPc, sIdx, sMeta, sOut>>

\* one step of get_option_chain before its date workers run
DiscoverDates ==
    \/ \E i \in 1..Len(stocks) : GetRate(stocks[i])
    \/ \E i \in 1..Len(stocks) : ReadClock(stocks[i])
    \/ \E i \in 1..Len(stocks) : GetDates(stocks[i])

\* one date worker: process_single_date with the rate and the today of its
\* ticker worker
ProcessDate(t, d) ==
    /\ sPc = "fetch"
    /\ t \in DOMAIN sWork
    /\ sWork[t].st = "dates"
    /\ d \in {sWork[t].valid[i] : i \in 1..Len(sWork[t].valid)}
    /\ d \notin DOMAIN sWork[t].res
    /\ \E resp \in ChainResponses :
          LET info == IF t \in DOMAIN sMeta THEN sMeta[t] ELSE NoRow
          IN  /\ sResp' = [sResp EXCEPT
                              !.chain = Put(sResp.chain, <<t, d>>, resp)]
              /\ sReq' = sReq \cup {Request("chain", t, d)}
              /\ sWork' = [sWork EXCEPT
                    ![t].res = Put(sWork[t].res, d,
                                   process_single_date(
                                      t, d, resp, info, sWork[t].rate,
                                      sWork[t].today)),
                    ![t].order = Append(sWork[t].order, d)]
    /\ UNCHANGED <<labelVars, greeksVars, filterVars, concVars,
                   sPc, sIdx, sMeta, sDone,
                   sOut>>

\* get_option_chain after its date workers: gather, concat, join metadata
JoinDates(t) ==
    /\ sPc = "fetch"
    /\ t \in DOMAIN sWork
    /\ sWork[t].st = "dates"
    /\ Len(sWork[t].order) = Len(sWork[t].valid)
    /\ LET all_calls == GatherDates(sWork[t].valid, sWork[t].order,
                                    sWork[t].res)
       IN  sWork' = [sWork EXCEPT
              ![t].st = "done",
              ![t].result = IF all_calls = <<>> THEN <<>>
                            ELSE WithMetadata(Concat(all_calls), sMeta[t])]
    /\ sDone' = Append(sDone, t)
    /\ UNCHANGED <<labelVars, greeksVars, filterVars, concVars,
                   sPc, sIdx, sResp, sMeta,
                   sReq, sOut>>

\* screen_options after the ticker workers: gather, concat, filter, sort
Collect ==
    /\ sPc = "fetch"
    /\ \A t \in DOMAIN sWork : sWork[t].st = "done"
    /\ sPc' = "done"
    /\ LET results == GatherTickers(Submitted(sMeta), sDone, sWork)
           df      == Concat(results)
       IN  sOut' = IF results = <<>>
                   THEN [combined |-> <<>>, diag |-> NoDiagnostics,
                         table |-> <<>>]
                   ELSE [combined |-> df,
                         diag |-> FilterAndRank(df, criteria).diag,
                         table |-> FilterAndRank(df, criteria).table]
    /\ UNCHANGED <<labelVars, greeksVars, filterVars, concVars,
                   sIdx, sResp, sMeta, sReq,
                   sWork, sDone>>

\* the clock advances while a ticker worker has yet to read it, up to the
\* midnight that ends the day on which the run started
ScreenTick ==
    /\ sPc = "fetch"
    /\ \E t \in DOMAIN sWork : sWork[t].st \in {"submitted", "rated"}
    /\ now < Midnight(1)
    /\ now' = now + 1
    /\ UNCHANGED <<raw, archive, training, exps, lab, injected,
                   orow, oout, bucket, screenVars>>

NextScreen ==
    \/ ScreenTick
    \/ MetadataStep
    \/ SubmitTickers
    \/ DiscoverDates
    \/ \E i \in 1..Len(stocks), d \in 0..2 : ProcessDate(stocks[i], d)
    \/ \E i \in 1..Len(stocks) : JoinDates(stocks[i])
    \/ Collect

SpecScreen == InitScreen /\ [][NextScreen]_vars

----------------------------------------------------------------------------
\* get_risk_free_rate under @lru_cache(maxsize=1), called first thing by
\* every ticker worker.

Callers == 1..MaxCallers

InitRate ==
    /\ LabelIdle
    /\ GreeksIdle
    /\ FilterIdle
    /\ RunIdle
    /\ PoolIdle
    /\ rCache = NoRow
    /\ rWork = [w \in Callers |-> [st |-> "start", rate |-> 0]]

StoreAlways(cache, result) == [rate |-> result]

\* lru_cache after the wrapped function returned: the result is stored
\* unless the key was stored by another caller during the call
Store(cache, result) == IF cache = NoRow THEN [rate |-> result] ELSE cache

\* the cache lookup of one call: a hit returns the stored rate, a miss goes
\* on to call the wrapped function; the cache lock is not held during that
\* call
CacheLookup(w) ==
    /\ rWork[w].st = "start"
    /\ rWork' = [rWork EXCEPT ![w] =
                    IF rCache = NoRow THEN [st |-> "fetching", rate |-> 0]
                    ELSE [st |-> "got", rate |-> rCache.rate]]
    /\ UNCHANGED <<rCache, labelVars, greeksVars, filterVars, runVars,
                   poolVars>>

\* the wrapped function returns to a caller that missed: the caller uses
\* the result of its own call
FetchReturns(w) ==
    /\ rWork[w].st = "fetching"
    /\ \E result \in FetchResults :
          /\ rWork' = [rWork EXCEPT ![w] = [st |-> "got", rate |-> result]]
          /\ rCache' = Store(rCache, result)
    /\ UNCHANGED <<labelVars, greeksVars, filterVars, runVars, poolVars>>

NextRate == \E w \in Callers : CacheLookup(w) \/ FetchReturns(w)

SpecRate == InitRate /\ [][NextRate]_vars

----------------------------------------------------------------------------
\* The thread pools of one screening run: the ticker pool of screen_options
\* and the date pool each get_option_chain creates.  A ticker worker is
\*   queued   submitted, waiting for a thread of the ticker pool
\*   dates    running, asking for the ticker's expiration dates
\*   pool     running, inside its `with ThreadPoolExecutor` block
\*   done     returned
\* with n valid dates, of which `started` date workers began and `finished`
\* returned.

Min(a, b) == IF a <= b THEN a ELSE b

\* how many valid dates a ticker can have
DateCounts == {0, 1, MaxDates}

NewTicker ==
    [st |-> "queued", n |-> 0, started |-> 0, finished |-> 0,
     pool |-> "none"]

InitPools ==
    /\ LabelIdle
    /\ GreeksIdle
    /\ FilterIdle
    /\ RunIdle
    /\ RateIdle
    /\ pMain = [pc |-> "start", pool |-> "none"]
    /\ pTick = <<>>

\* the ticker workers that are executing get_option_chain
RunningTickers == {i \in DOMAIN pTick : pTick[i].st \in {"dates", "pool"}}

\* the date workers of ticker i that are executing process_single_date
DateWorkers(i) == pTick[i].started - pTick[i].finished

RECURSIVE SubmittedDates(_)
\* the date workers submitted so far by tickers 1..i
SubmittedDates(i) ==
    IF i = 0 THEN 0 ELSE pTick[i].n + SubmittedDates(i - 1)

\* a thread of the ticker pool is free: max_workers=5
TickerSlotFree == Cardinality(RunningTickers) < PoolSize

DateSlotFreeShared(i) ==
    LET busy[j \in 0..Len(pTick)] ==
           IF j = 0 THEN 0 ELSE DateWorkers(j) + busy[j - 1]
    IN  busy[Len(pTick)] < PoolSize

DateSlotFreeInTickerPool(i) ==
    LET busy[j \in 0..Len(pTick)] ==
           IF j = 0 THEN 0 ELSE DateWorkers(j) + busy[j - 1]
    IN  Cardinality(RunningTickers) + busy[Len(pTick)] < PoolSize

\* a thread of ticker i's own date pool is free:
\* max_workers=min(len(valid_dates), 5)
DateSlotFree(i) == DateWorkers(i) < Min(pTick[i].n, PoolSize)

\* screen_options: the ticker pool is created and one get_option_chain is
\* submitted per ticker of the metadata map
SubmitTickerTasks ==
    /\ pMain.pc = "start"
    /\ \E n \in 0..MaxTickers : pTick' = [i \in 1..n |-> NewTicker]
    /\ pMain' = [pc |-> "waiting", pool |-> "open"]
    /\ UNCHANGED <<labelVars, greeksVars, filterVars, runVars, rateVars>>

\* a thread of the ticker pool takes the oldest queued task
StartTicker(i) ==
    /\ pMain.pc = "waiting"
    /\ i \in DOMAIN pTick
    /\ pTick[i].st = "queued"
    /\ \A j \in 1..(i - 1) : pTick[j].st # "queued"
    /\ TickerSlotFree
    /\ pTick' = [pTick EXCEPT ![i].st = "dates"]
    /\ UNCHANGED <<pMain, labelVars, greeksVars, filterVars, runVars,
                   rateVars>>

\* get_expiration_dates returned and the dates were filtered: without a
\* valid date the worker returns None, otherwise it creates its date pool
\* and submits one process_single_date per valid date
DatesReturn(i) ==
    /\ i \in DOMAIN pTick
    /\ pTick[i].st = "dates"
    /\ \E n \in DateCounts :
          /\ SubmittedDates(Len(pTick)) + n <= MaxDateTasks
          /\ pTick' = [pTick EXCEPT ![i] =
                IF n = 0 THEN [@ EXCEPT !.st = "done"]
                ELSE [@ EXCEPT !.st = "pool", !.n = n, !.pool = "open"]]
    /\ UNCHANGED <<pMain, labelVars, greeksVars, filterVars, runVars,
                   rateVars>>

\* a thread of ticker i's date pool takes a queued process_single_date
StartDate(i) ==
    /\ i \in DOMAIN pTick
    /\ pTick[i].st = "pool"
    /\ pTick[i].started < pTick[i].n
    /\ DateSlotFree(i)
    /\ pTick' = [pTick EXCEPT ![i].started = @ + 1]
    /\ UNCHANGED <<pMain, labelVars, greeksVars, filterVars, runVars,
                   rateVars>>

\* the chain request of a date worker returned (rows, nothing or an error,
\* all caught inside process_single_date) and the worker returns
FinishDate(i) ==
    /\ i \in DOMAIN pTick
    /\ pTick[i].st = "pool"
    /\ DateWorkers(i) > 0
    /\ pTick' = [pTick EXCEPT ![i].finished = @ + 1]
    /\ UNCHANGED <<pMain, labelVars, greeksVars, filterVars, runVars,
                   rateVars>>

\* every f.result() of the ticker worker returned and the `with` block is
\* left: shutdown(wait=True), then get_option_chain returns
JoinDatePool(i) ==
    /\ i \in DOMAIN pTick
    /\ pTick[i].st = "pool"
    /\ pTick[i].finished = pTick[i].n
    /\ pTick' = [pTick EXCEPT ![i].st = "done", ![i].pool = "shut"]
    /\ UNCHANGED <<pMain, labelVars, greeksVars, filterVars, runVars,
                   rateVars>>

\* every f.result() of screen_options returned and its `with` block is
\* left: shutdown(wait=True), then the results are filtered and returned
ReturnScreen ==
    /\ pMain.pc = "waiting"
    /\ \A i \in DOMAIN pTick : pTick[i].st = "done"
    /\ pMain' = [pc |-> "returned", pool |-> "shut"]
    /\ UNCHANGED <<pTick, labelVars, greeksVars, filterVars, runVars,
                   rateVars>>

NextPools ==
    \/ SubmitTickerTasks
    \/ \E i \in 1..MaxTickers : StartTicker(i)
    \/ \E i \in 1..MaxTickers : DatesReturn(i)
    \/ \E i \in 1..MaxTickers : StartDate(i)
    \/ \E i \in 1..MaxTickers : FinishDate(i)
    \/ \E i \in 1..MaxTickers : JoinDatePool(i)
    \/ ReturnScreen

SpecPools == InitPools /\ [][NextPools]_vars

\* every collaborator call returns and the executors' threads are scheduled:
\* a step that can be taken is eventually taken
SpecPoolsFair == SpecPools /\ WF_vars(NextPools)

----------------------------------------------------------------------------
\* Properties of the labeling pipeline and of the snapshot export

RawIds     == Ids(raw, DOMAIN raw)
ArchiveIds == Ids(archive, DOMAIN archive)

\* the snapshots some export has stored under raw_data/
StoredIds == {e \in DOMAIN exps : exps[e].out = "stored"}

\* the signatures of every labeled batch in training_data/
LabeledSignatures ==
    UNION {Signatures(training[k]) : k \in DOMAIN training}

\* the rows of every snapshot under raw_data/
RawStoreRows == UNION {raw[k].rows : k \in DOMAIN raw}

\* the labeling run i takes the step
Stepped(i) ==
    [lab'[i] EXCEPT !.alone = FALSE] # [lab[i] EXCEPT !.alone = FALSE]

\* the step of run i is the answer to its last history request
Priced(i) == lab[i].pc = "download" /\ lab'[i].pc # "download"

\* run i has ended its raw scan and has not yet filtered the rows
Scanned(i) == lab[i].pc = "clock_filter"

\* an export other than id has stored a snapshot under the key of id
OtherExportStored(id) ==
    \E e \in StoredIds : e # id /\ exps[e].key = exps[id].key

\* C1: when the labeling pipeline runs twice in a row (the first run
\* completing normally, the second starting after it, no other run and no
\* stored export from the start of the first to the step of the second),
\* every row of the persisted batches, the first run's output included, is
\* in the dedup index the second run built and is excluded from its eligible
\* rows, and the second run labels no row that a persisted batch carries.
C1_RerunEmitsNothing ==
    [][ \A i \in DOMAIN lab :
          ( /\ i > 1
            /\ Stepped(i)
            /\ lab[i].alone
            /\ lab[i - 1].alone
            /\ lab[i - 1].outcome \in {"no_raw", "up_to_date", "no_prices",
                                       "emitted"} )
          => /\ lab[i].pc = "clock_filter" =>
                   \A k \in DOMAIN training : \A q \in training[k] :
                      /\ Signature(q) \in lab[i].index
                      /\ Signature(q) \notin Signatures(lab'[i].eligible)
             /\ Priced(i) =>
                   Signatures(lab'[i].labeled) \cap LabeledSignatures = {}
      ]_vars

\* C2: no two rows of the persisted labeled batches share a signature.
C2_UniqueSignatures ==
    \A k1 \in DOMAIN training, k2 \in DOMAIN training :
       \A r1 \in training[k1], r2 \in training[k2] :
          Signature(r1) = Signature(r2) => (k1 = k2 /\ r1 = r2)

ScanOutcome ==
    \A i \in DOMAIN lab :
       Scanned(i) =>
          \A id \in lab[i].dead :
             LET k == exps[id].key IN
             /\ k \notin lab[i].uncopied =>
                   /\ k \in DOMAIN archive
                   /\ archive[k].id = id \/ OtherExportStored(id)
             /\ k \notin lab[i].uncopied \cup lab[i].undeleted =>
                   id \notin RawIds
             /\ id \in RawIds \cup ArchiveIds \/ OtherExportStored(id)

\* a storage call of the raw scan that raises changes neither namespace, and
\* after a copy_object that raised no delete_object is attempted; a snapshot
\* leaves raw_data/ only when a delete_object of a labeling run succeeds or
\* an export stores a snapshot under its key; no raw scan reads a snapshot
\* that is in the archive and no longer under raw_data/
ScanStep ==
    /\ \A i \in DOMAIN lab :
          /\ ( /\ Stepped(i)
               /\ lab[i].pc \in {"get_raw", "copy", "delete"}
               /\ injected' # injected )
             => /\ raw' = raw
                /\ archive' = archive
                /\ lab'[i].pc # "delete"
          /\ (Stepped(i) /\ lab[i].pc = "get_raw") =>
                (lab'[i].dead \ lab[i].dead) \cap (ArchiveIds \ RawIds) = {}
    /\ \A id \in RawIds :
          id \notin Ids(raw', DOMAIN raw') =>
             \/ \E i \in DOMAIN lab :
                   /\ lab[i].pc = "delete"
                   /\ Stepped(i)
                   /\ injected' = injected
             \/ \E e \in DOMAIN exps :
                   /\ exps[e].pc = "put"
                   /\ exps'[e].out = "stored"
                   /\ exps[e].key = exps[id].key

C4_ArchivalNeverDeletes ==
    [][ (\E i \in DOMAIN lab : Stepped(i)) =>
           \A id \in RawIds :
              id \in Ids(raw', DOMAIN raw') \cup Ids(archive', DOMAIN archive')
      ]_vars

\* C5: for a labeling run during which no other run is in progress and no
\* export is stored, so that training_data/ holds at each of its steps the
\* batches persisted before the run: every row it sends to price lookup is
\* a row of its raw scan that is expired at its clock reading and whose
\* signature no persisted batch carries, and every row of the batch it
\* stores is expired and carried by no batch persisted before.
C5_OnlyExpiredUnlabeled ==
    [][ \A i \in DOMAIN lab :
          (Stepped(i) /\ lab[i].alone) =>
             /\ lab[i].pc = "clock_filter" =>
                   \A r \in lab'[i].eligible :
                      /\ r \in lab[i].rows
                      /\ r.expiration_date < now
                      /\ Signature(r) \notin LabeledSignatures
             /\ (lab[i].pc = "put" /\ training' # training) =>
                   \A l \in training'[lab[i].key] :
                      /\ l.expiration_date < now
                      /\ Signature(l) \notin LabeledSignatures
      ]_vars

\* C6: a labeling run never writes its batch under the key of a persisted
\* batch, and no step removes or changes a persisted labeled batch.
C6_AppendOnly ==
    [][ /\ \A i \in DOMAIN lab :
              (lab[i].pc = "put" /\ training' # training)
                 => lab[i].key \notin DOMAIN training
        /\ \A k \in DOMAIN training :
              k \in DOMAIN training' /\ training'[k] = training[k]
      ]_vars

\* C7: the rows stored under a raw_data/ key never change; the only change
\* to a snapshot is its move to the archive by a labeling run.
C7_SnapshotImmutable ==
    [][ \A k \in DOMAIN raw :
           \/ k \in DOMAIN raw' /\ raw'[k].rows = raw[k].rows
           \/ /\ k \notin DOMAIN raw'
              /\ \E i \in DOMAIN lab : Stepped(i)
              /\ k \in DOMAIN archive'
              /\ archive'[k] = raw[k]
      ]_vars

\* the fetched series of a ticker has a bar on day d
Fetched(resp, d) == resp # "fail" /\ HasBar(resp, d)

LabeledFrom(labeled, r) == {l \in labeled : Signature(l) = Signature(r)}

\* C8: an eligible row gets the close of its expiration date when the
\* fetched series has that bar, else the close of the day before when the
\* series has that one; with neither it is left out of the batch, the run
\* does not raise and the other rows are still labeled.
C8_PriceLookup ==
    [][ \A i \in DOMAIN lab :
          Priced(i) =>
             /\ lab'[i].pc = "clock_key" \/ lab'[i].outcome = "no_prices"
             /\ \A r \in lab[i].eligible :
                   LET resp == lab'[i].hist[r.ticker]
                       e    == Day(r.expiration_date)
                       from == LabeledFrom(lab'[i].labeled, r)
                   IN  IF Fetched(resp, e)
                       THEN /\ from # {}
                            /\ \A l \in from : l.final_price = CloseOn(e)
                       ELSE IF Fetched(resp, e - 1)
                       THEN /\ from # {}
                            /\ \A l \in from : l.final_price = CloseOn(e - 1)
                       ELSE from = {}
      ]_vars

\* one row of the run was priced by the day before its expiration and
\* another row of the same run had no price and was dropped
C8_Witness ==
    \E i \in DOMAIN lab :
       /\ lab[i].pc = "clock_key"
       /\ \E r \in lab[i].eligible :
             /\ ~Fetched(lab[i].hist[r.ticker], Day(r.expiration_date))
             /\ \E l \in LabeledFrom(lab[i].labeled, r) :
                   l.final_price = CloseOn(Day(r.expiration_date) - 1)
       /\ \E r \in lab[i].eligible : LabeledFrom(lab[i].labeled, r) = {}

\* the end-to-end example of the specification: 7 days held, assigned
ExampleRow ==
    [snapshot_date |-> Midnight(0), ticker |-> "XYZ", strike |-> 100,
     premium |-> 2, stock_price |-> 95, expiration_date |-> Midnight(7),
     final_price |-> 105]

\* C9: calculate_outcomes sets assigned = final_price > strike,
\* realized_value = (strike if assigned else final_price) + premium,
\* realized_return_pct = (realized_value - stock_price) / stock_price,
\* target_profitable = realized_return_pct > 0, realized_annual_return =
\* realized_return_pct * 365 / days_held and target_high_quality =
\* realized_annual_return > 0.15; final_price = strike is not assigned, and
\* the example row is assigned with value 102, profitable and high quality.
C9_Outcomes ==
    oout # NoRow =>
        LET v == IF orow.final_price > orow.strike
                 THEN orow.strike + orow.premium
                 ELSE orow.final_price + orow.premium
            g == v - orow.stock_price
            h == oout.days_held
        IN  /\ oout.assigned = (orow.final_price > orow.strike)
            /\ (orow.final_price = orow.strike) => ~oout.assigned
            /\ oout.realized_value = v
            /\ oout.realized_return_pct.num * orow.stock_price
                  = g * oout.realized_return_pct.den
            /\ oout.target_profitable = (v > orow.stock_price)
            /\ oout.realized_annual_return.num * orow.stock_price * h
                  = g * 365 * oout.realized_annual_return.den
            /\ oout.target_high_quality =
                  (IF h > 0 THEN g * 365 * 100 > 15 * orow.stock_price * h
                            ELSE g * 365 * 100 < 15 * orow.stock_price * h)
            /\ orow = ExampleRow =>
                  /\ oout.assigned
                  /\ oout.realized_value = 102
                  /\ oout.days_held = 7
                  /\ oout.target_profitable
                  /\ oout.target_high_quality

\* the example row has been labeled
C9_Witness ==
    /\ orow = ExampleRow
    /\ oout # NoRow
    /\ oout.realized_value = 102

\* C10: every persisted labeled row has days_held = max(whole days from
\* snapshot_date to expiration_date, 1), hence days_held >= 1.
C10_DaysHeldAtLeastOne ==
    \A k \in DOMAIN training : \A r \in training[k] :
        /\ r.days_held = DaysHeldMax(r)
        /\ r.days_held >= 1

\* how often a row occurs in a table, and the rows of a table
Count(seq, r) == Cardinality({i \in 1..Len(seq) : seq[i] = r})

Rows(seq) == {seq[i] : i \in 1..Len(seq)}

\* C11: the table returned by screen_options holds exactly the rows of the
\* combined table that satisfy strike >= stock_price, volume >= min_volume,
\* premium >= min_premium, delta, vega, stock_price and implied_volatility
\* within their inclusive bounds, open_interest >= min_open_interest, and
\* pe_ratio = 0 or within its inclusive bounds; a row with pe_ratio = 0 is
\* never rejected by the PE bounds, and a row with pe_ratio = 5 is rejected
\* under min_pe = 8.
C11_FilterConjunction ==
    fOut # NoRow =>
        LET c == fIn.c
            rest(r) ==
                /\ r.strike >= r.stock_price
                /\ r.volume >= c.min_volume
                /\ r.premium >= c.min_premium
                /\ c.min_delta <= r.delta /\ r.delta <= c.max_delta
                /\ c.min_vega <= r.vega /\ r.vega <= c.max_vega
                /\ c.min_stock_price <= r.stock_price
                /\ r.stock_price <= c.max_stock_price
                /\ r.open_interest >= c.min_open_interest
                /\ c.min_implied_volatility <= r.implied_volatility
                /\ r.implied_volatility <= c.max_implied_volatility
            pe(r) ==
                \/ r.pe_ratio = 0
                \/ c.min_pe_ratio <= r.pe_ratio /\ r.pe_ratio <= c.max_pe_ratio
        IN  /\ Rows(fOut.table) \subseteq Rows(fIn.df)
            /\ \A r \in Rows(fIn.df) :
                  Count(fOut.table, r) =
                     IF rest(r) /\ pe(r) THEN Count(fIn.df, r) ELSE 0
            /\ \A r \in Rows(fIn.df) :
                  (r.pe_ratio = 0 /\ rest(r)) => r \in Rows(fOut.table)
            /\ \A r \in Rows(fIn.df) :
                  (r.pe_ratio = 500 /\ c.min_pe_ratio = 800)
                     => r \notin Rows(fOut.table)

\* a row with pe_ratio = 0 was kept and one with pe_ratio = 5 was rejected
\* under min_pe = 8
C11_Witness ==
    /\ fOut # NoRow
    /\ fIn.c.min_pe_ratio = 800
    /\ \E r \in Rows(fOut.table) : r.pe_ratio = 0
    /\ \E r \in Rows(fIn.df) : r.pe_ratio = 500 /\ r \notin Rows(fOut.table)

\* C12: when the filter removes every row of a non-empty combined table,
\* screen_options reports the pass count of each of the four predicates
\* volume, premium, delta and PE (PE with the pe_ratio = 0 escape) and
\* returns an empty table.
C12_DiagnosticsOnEmptyResult ==
    (fOut # NoRow /\ fIn.df # <<>> /\ Query(fIn.df, fIn.c) = <<>>) =>
        LET c == fIn.c
            n(P(_)) == Cardinality({i \in 1..Len(fIn.df) : P(fIn.df[i])})
            vol(r) == r.volume >= c.min_volume
            pre(r) == r.premium >= c.min_premium
            del(r) == c.min_delta <= r.delta /\ r.delta <= c.max_delta
            pe(r)  == \/ r.pe_ratio = 0
                      \/ c.min_pe_ratio <= r.pe_ratio
                         /\ r.pe_ratio <= c.max_pe_ratio
        IN  /\ fOut.table = <<>>
            /\ {"volume", "premium", "delta", "pe"} \subseteq DOMAIN fOut.diag
            /\ fOut.diag.volume = n(vol)
            /\ fOut.diag.premium = n(pre)
            /\ fOut.diag.delta = n(del)
            /\ fOut.diag.pe = n(pe)

\* C13: in the table returned by screen_options consecutive rows are
\* non-increasing in premium_return, and consecutive rows with equal
\* premium_return are non-decreasing in days_to_expiry.
C13_SortedOutput ==
    fOut # NoRow =>
        \A i \in 1..(Len(fOut.table) - 1) :
            LET a == fOut.table[i]
                b == fOut.table[i + 1]
            IN  /\ ~RatGT(b.premium_return, a.premium_return)
                /\ RatEQ(a.premium_return, b.premium_return)
                      => a.days_to_expiry <= b.days_to_expiry

\* two rows that tie on premium_return came in with the later expiry first
\* and were returned with the earlier expiry first
C13_Witness ==
    /\ fOut # NoRow
    /\ Len(fOut.table) = 2
    /\ Len(fIn.df) = 2
    /\ RatEQ(fOut.table[1].premium_return, fOut.table[2].premium_return)
    /\ fOut.table[1].days_to_expiry < fOut.table[2].days_to_expiry
    /\ fIn.df[1] = fOut.table[2]

\* the frame of one ticker when its dates are processed one after the other
\* in the order of the list, from the answers the run received
SequentialTicker(t) ==
    LET info == MetadataEntry(t, sResp.meta[t])
    IN  IF info = NoRow THEN <<>>
        ELSE LET valid == ValidDates(sResp.dates[t].dates, sResp.clock[t])
                 parts == [i \in 1..Len(valid) |->
                             process_single_date(
                                t, valid[i], sResp.chain[<<t, valid[i]>>],
                                info, sResp.rate[t], sResp.clock[t])]
                 kept  == SelectSeq(parts, LAMBDA p : p # <<>>)
             IN  IF kept = <<>> THEN <<>>
                 ELSE WithMetadata(Concat(kept), info)

\* the table of a run that handles the tickers one after the other
SequentialTable ==
    FilterAndRank(
        Concat([i \in 1..Len(stocks) |-> SequentialTicker(stocks[i])]),
        criteria).table

\* C14: the table returned by screen_options, rows and order, is the one a
\* sequential run computes from the same collaborator answers, whatever the
\* order in which the ticker workers and the date workers completed.
C14_OrderIndependent ==
    sPc = "done" => sOut.table = SequentialTable

\* the second ticker completed first and both tickers have rows in the table
C14_Witness ==
    /\ sPc = "done"
    /\ Len(sDone) = 2
    /\ sDone[1] = stocks[2]
    /\ \E r \in Rows(sOut.table) : r.ticker = stocks[1]
    /\ \E r \in Rows(sOut.table) : r.ticker = stocks[2]
    /\ \E t \in DOMAIN sWork :
          Len(sWork[t].order) = 2 /\ sWork[t].order # sWork[t].valid

\* C15: for a ticker whose metadata fetch failed or whose price is missing or
\* zero, no expiration-date request and no chain request is ever issued and
\* the combined table has no row of it; no expiration-date or chain request
\* is issued before the metadata of every ticker has been fetched.
C15_ExcludedTickers ==
    /\ \A t \in DOMAIN sResp.meta :
          sResp.meta[t] \in {"raise", "empty", "noprice", "zero", "dividend"}
          => /\ \A q \in sReq : q.ticker = t => q.kind = "info"
             /\ sOut # NoRow =>
                   \A r \in Rows(sOut.combined) : r.ticker # t
    /\ (\E q \in sReq : q.kind # "info")
          => DOMAIN sResp.meta = Rows(stocks)

\* the run ended, the first ticker had a price of 0 and the second ticker
\* has rows in the combined table
C15_Witness ==
    /\ sPc = "done"
    /\ sResp.meta[stocks[1]] = "zero"
    /\ \E r \in Rows(sOut.combined) : r.ticker = stocks[2]

\* C16: at the end of a run, a valid date of a ticker whose chain request
\* failed or gave no rows has no row in the combined table, and every other
\* valid date of the ticker has all the rows of its chain there, in order.
C16_FailedDateOnly ==
    sPc = "done" =>
        \A t \in DOMAIN sWork : \A i \in 1..Len(sWork[t].valid) :
            LET d    == sWork[t].valid[i]
                resp == sResp.chain[<<t, d>>]
                got  == SelectSeq(sOut.combined, LAMBDA r :
                           r.ticker = t /\ r.expiration_date = d)
            IN  IF resp.status = "ok"
                THEN /\ Len(got) = Len(resp.calls)
                     /\ \A j \in 1..Len(got) :
                           /\ got[j].strike = resp.calls[j].strike
                           /\ got[j].premium = resp.calls[j].lastPrice
                           /\ got[j].implied_volatility
                                 = resp.calls[j].impliedVolatility
                ELSE got = <<>>

\* one date of a ticker failed and another date of the same ticker has its
\* rows in the combined table
C16_Witness ==
    /\ sPc = "done"
    /\ \E t \in DOMAIN sWork :
       \E i, j \in 1..Len(sWork[t].valid) :
          /\ sResp.chain[<<t, sWork[t].valid[i]>>].status = "fail"
          /\ sResp.chain[<<t, sWork[t].valid[j]>>].status = "ok"
          /\ \E r \in Rows(sOut.combined) :
                r.ticker = t /\ r.expiration_date = sWork[t].valid[j]

\* C17: no failing external call of a screening export or of a labeling run
\* propagates as an exception out of export_to_s3 or run_labeling_pipeline:
\* every operation returns to its caller.
C17_FailuresNeverPropagate ==
    /\ \A i \in DOMAIN lab :
          lab[i].pc = "done" => Exit(lab[i].outcome) = "returned"
    /\ \A e \in DOMAIN exps :
          exps[e].pc = "done" => exps[e].exit = "returned"

\* C18: when the bucket configuration is absent, an export of a non-empty
\* screen and a labeling run end in an error raised to the caller.
C18_MissingBucketIsFatal ==
    ~bucket =>
       /\ \A i \in DOMAIN lab :
             lab[i].pc = "done" => Exit(lab[i].outcome) = "raised"
       /\ \A e \in DOMAIN exps :
             (exps[e].pc = "done" /\ exps[e].out # "empty")
                => exps[e].exit = "raised"

\* C19: calculate_greeks_vectorized called with T <= 0 or with some
\* sigma <= 0 returns, without raising, a table with one row per contract
\* whose delta, gamma, theta, vega and rho are all 0.
C19_DegenerateGreeksAreZero ==
    (gOut # NoRow /\ GreeksEdgeCase(gIn.T, gIn.sigma)) =>
        /\ ~gOut.raised
        /\ Len(gOut.table) = Len(gIn.K)
        /\ \A i \in 1..Len(gOut.table) : gOut.table[i] = ZeroGreeks

\* C20: every row of the combined table and of the screened output has
\* days_to_expiry >= 1, also when the window admits an expiration date equal
\* to today.
C20_DaysToExpiryAtLeastOne ==
    sOut # NoRow =>
        \A r \in Rows(sOut.combined) \cup Rows(sOut.table) :
            r.days_to_expiry >= 1

\* C25: in every labeled row, target_high_quality implies
\* target_profitable, for every combination of strike, premium, stock_price,
\* final_price, snapshot_date and expiration_date.
C25_HighQualityIsProfitable ==
    oout # NoRow => (oout.target_high_quality => oout.target_profitable)

\* the snapshots that have been moved: stored under raw_data/archive/ and no
\* longer under raw_data/
MovedIds == ArchiveIds \ RawIds

\* C26: the rows a labeling run loads come from a snapshot that is under
\* raw_data/ when it is read, the rows it selects are among the rows it
\* loaded, every row of the batch it builds is the outcome of a selected row
\* and the batch it stores is that batch; a snapshot that has left raw_data/
\* for the archive is never under raw_data/ again.  So no run that starts
\* after the move labels a row out of that snapshot, whether or not the row
\* was emitted by the run that archived it.
C26_ArchivedNeverLabeled ==
    [][ /\ \A i \in DOMAIN lab :
              /\ Stepped(i) => (lab'[i].rows \ lab[i].rows) \subseteq RawStoreRows
              /\ (lab[i].pc = "clock_filter" /\ Stepped(i)) =>
                    lab'[i].eligible \subseteq lab[i].rows
              /\ Priced(i) =>
                    \A l \in lab'[i].labeled :
                       \E r \in lab[i].eligible :
                          /\ Signature(r) = Signature(l)
                          /\ calculate_outcomes(WithPrice(r, l.final_price)) = l
              /\ (lab[i].pc = "put" /\ Stepped(i)) =>
                    \/ training' = training
                    \/ training' = Put(training, lab[i].key, lab[i].labeled)
        /\ \A id \in StoredIds :
              (id \in MovedIds) =>
                 id \notin Ids(raw', DOMAIN raw')
      ]_vars

\* a second run emitted a batch while a snapshot moved by an earlier run
\* holds an expired row that no batch carries
C26_Witness ==
    /\ Len(lab) > 1
    /\ lab[Len(lab)].outcome = "emitted"
    /\ \E k \in DOMAIN archive :
          /\ archive[k].id \in MovedIds
          /\ \E r \in archive[k].rows :
                /\ r.expiration_date < now
                /\ Signature(r) \notin LabeledSignatures

\* the expiration dates the provider listed for ticker t that lie between
\* min_days and max_days calendar days after the day on which t's worker
\* read the clock, both ends included
Window(t) ==
    LET listed == sResp.dates[t].dates
    IN  {listed[i] : i \in {j \in 1..Len(listed) :
            /\ criteria.min_days <= listed[j] - Day(sResp.clock[t])
            /\ listed[j] - Day(sResp.clock[t]) <= criteria.max_days}}

\* the expiration dates for which ticker t's option chain was requested
ChainRequested(t) ==
    {r.date : r \in {q \in sReq : q.kind = "chain" /\ q.ticker = t}}

\* C21: for each ticker, option chains are requested only for the listed
\* dates at min_days to max_days calendar days from today, both ends
\* included, and for every one of them by the time the ticker's worker has
\* returned; a ticker with no such date gets no chain request and its worker
\* returns nothing, the run going on.
C21_WindowedDates ==
    \A t \in DOMAIN sResp.dates :
        /\ ChainRequested(t) \subseteq Window(t)
        /\ sWork[t].st = "done" => ChainRequested(t) = Window(t)
        /\ Window(t) = {} => /\ sWork[t].st = "done"
                             /\ sWork[t].result = <<>>
        /\ sPc = "done" => sOut # NoRow

\* a run returned during which midnight passed between the clock readings
\* of its two workers: one ticker listed days 0, 1 and 2 and days 0 and 1
\* were requested, the other listed days 0, 1 and 2 and days 1 and 2 were
\* requested
C21_Witness ==
    /\ sPc = "done"
    /\ \E t \in DOMAIN sResp.dates, u \in DOMAIN sResp.dates :
          /\ sResp.dates[t].dates = <<0, 1, 2>>
          /\ sResp.clock[t] = Midnight(0)
          /\ ChainRequested(t) = {0, 1}
          /\ sResp.dates[u].dates = <<0, 1, 2>>
          /\ sResp.clock[u] = Midnight(1)
          /\ ChainRequested(u) = {1, 2}

\* C23: within one run every ticker worker that has obtained the risk-free
\* rate has obtained the same value, whatever the interleaving of the first
\* accesses and whether fetches succeed or fail.
C23_OneRatePerRun ==
    \A w1 \in DOMAIN rWork, w2 \in DOMAIN rWork :
        (rWork[w1].st = "got" /\ rWork[w2].st = "got")
            => rWork[w1].rate = rWork[w2].rate

\* C22: at most 5 ticker workers are executing, each ticker has at most
\* min(valid date count, 5) date workers executing, and a queued date worker
\* of a ticker whose own pool has a free thread can start whatever the other
\* tickers' pools and the ticker pool are doing.
C22_PoolBounds ==
    /\ Cardinality(RunningTickers) <= 5
    /\ \A i \in DOMAIN pTick :
          /\ DateWorkers(i) <= Min(pTick[i].n, 5)
          /\ ( /\ pTick[i].st = "pool"
               /\ pTick[i].started < pTick[i].n
               /\ DateWorkers(i) < Min(pTick[i].n, 5) )
             => ENABLED StartDate(i)

\* five ticker workers are executing while a sixth is queued; one of them
\* has more than 5 valid dates and 5 date workers executing, another has a
\* date worker executing too
C22_Witness ==
    /\ Cardinality(RunningTickers) = 5
    /\ \E i \in DOMAIN pTick : pTick[i].st = "queued"
    /\ \E i \in DOMAIN pTick, j \in DOMAIN pTick :
          /\ i # j
          /\ pTick[i].n > 5 /\ DateWorkers(i) = 5
          /\ pTick[i].started < pTick[i].n
          /\ DateWorkers(j) > 0

\* screen_options has returned with every pool joined: each ticker worker
\* has returned, each date pool that was created is shut down with all its
\* workers finished, and the ticker pool is shut down
AllJoined ==
    /\ pMain = [pc |-> "returned", pool |-> "shut"]
    /\ \A i \in DOMAIN pTick :
          /\ pTick[i].st = "done"
          /\ pTick[i].started = pTick[i].n
          /\ pTick[i].finished = pTick[i].n
          /\ pTick[i].pool = IF pTick[i].n = 0 THEN "none" ELSE "shut"

\* C24: when every collaborator call returns, a started screen_options
\* returns; and at every moment a ticker worker that has returned has all
\* its date workers finished and its pool shut down, and a screen_options
\* that has returned has all its ticker workers returned and its pool shut
\* down.
C24_ScreenReturns ==
    /\ [](\A i \in DOMAIN pTick :
             pTick[i].st = "done" =>
                /\ pTick[i].finished = pTick[i].n
                /\ pTick[i].started = pTick[i].n
                /\ pTick[i].pool = IF pTick[i].n = 0 THEN "none" ELSE "shut")
    /\ [](pMain.pc = "returned" => AllJoined)
    /\ (pMain.pc = "start") ~> AllJoined

\* screen_options returned after six ticker workers, of which at least five
\* had a date pool
C24_Witness ==
    /\ AllJoined
    /\ Len(pTick) = MaxTickers
    /\ Cardinality({i \in DOMAIN pTick : pTick[i].pool = "shut"}) >= 5

====
